---- MODULE Spec2Model ----
(***************************************************************************)
(* A model of the REST query handlers of rest_api.py (five Flask routes    *)
(* over five MongoDB collections), of the record post-processing they do,  *)
(* and of the comment-thread traversal over the Post / Comment documents   *)
(* of graphql_models.py.                                                   *)
(***************************************************************************)
EXTENDS Integers, Sequences, FiniteSets, TLC

VARIABLES
    db,        \* the store: collection name -> sequence of documents (insertion order)
    pc,        \* "idle": waiting for a request; "done": a response was produced
    req,       \* the request last dispatched: [kind, args]
    resp,      \* the response produced for req
    calls,     \* the store calls made while handling req, in order
    checked,   \* the sort fields the handler compared against an allow-list and accepted
    sanKind,   \* sanitizer run: the record kind whose steps are applied
    sanIn,     \* sanitizer run: the record handed to the steps
    sanOut,    \* sanitizer run: the outcome of the last application
    sanPc,     \* sanitizer run: "new", "once" (applied once), "twice" (applied to its output)
    tcPost,    \* thread: the post's comment_ids
    tcReplies, \* thread: comment id -> that comment's comment_ids
    tcEdges,   \* thread: number of ids attached so far
    tcQueue,   \* traversal: ids discovered and not yet expanded
    tcResult,  \* traversal: ids visited so far, in visiting order
    tcPc       \* traversal: "build", "run", "done", "failed"

restVars == <<db, pc, req, resp, calls, checked>>
sanVars == <<sanKind, sanIn, sanOut, sanPc>>
tcVars == <<tcPost, tcReplies, tcEdges, tcQueue, tcResult, tcPc>>
vars == <<db, pc, req, resp, calls, checked, sanKind, sanIn, sanOut, sanPc,
          tcPost, tcReplies, tcEdges, tcQueue, tcResult, tcPc>>

(***************************************************************************)
(* Bounds of the model.                                                    *)
(***************************************************************************)
\* documents of a collection that are drawn freely from the pool
MaxDocs == 2
\* further identical plain documents a collection may hold after those
PadDocs == 10
\* ids attached to the post and to its comments before a traversal starts
MaxEdges == 4

(***************************************************************************)
(* Python and BSON values.                                                 *)
(***************************************************************************)
\* Python's None; no request parameter carries this text
None == "<None>"

\* a BSON value: t is its type, v its payload, nan marks a float that is not a number
ObjectId(n) == [t |-> "oid", nan |-> FALSE, v |-> n]
StrOfId(n) == [t |-> "str", nan |-> FALSE, v |-> n]
Float(x) == [t |-> "float", nan |-> FALSE, v |-> x]
NaN == [t |-> "float", nan |-> TRUE, v |-> 0]
Int32(x) == [t |-> "int", nan |-> FALSE, v |-> x]
Null == [t |-> "null", nan |-> FALSE, v |-> 0]
\* a field the projection removed
Absent == [t |-> "absent", nan |-> FALSE, v |-> 0]

\* the names rest_api.py binds at module level: its imports and assignments
ModuleGlobals ==
    {"Blueprint", "request", "jsonify", "MongoClient", "ASCENDING", "DESCENDING",
     "yaml", "dumps", "rest_api", "file", "config", "MongoURI", "client", "db",
     "collection", "cash_flow_collection", "quarterly_earnings_collection",
     "stock_weekly_data_collection", "news_sentiment_collection",
     "get_company_overview", "get_cash_flow", "get_quarterly_earnings",
     "get_weekly_data", "get_news_sentiment"}

\* evaluating a global name that is not bound raises NameError
Bound(name) == name \in ModuleGlobals

ASCENDING == 1
DESCENDING == -1
DefaultLimit == 10

(***************************************************************************)
(* Characters, int() and the timestamp conversions.                        *)
(***************************************************************************)
DigitChars == <<"0", "1", "2", "3", "4", "5", "6", "7", "8", "9">>

IsDigit(c) == \E i \in 1..10 : DigitChars[i] = c

DigitVal(c) == (CHOOSE i \in 1..10 : DigitChars[i] = c) - 1

DigitChar(n) == DigitChars[n + 1]

RECURSIVE NatOf(_)
\* the value of a non-empty sequence of digits
NatOf(cs) ==
    IF Len(cs) = 0 THEN 0
    ELSE 10 * NatOf(SubSeq(cs, 1, Len(cs) - 1)) + DigitVal(cs[Len(cs)])

AllDigits(cs) == Len(cs) > 0 /\ \A i \in 1..Len(cs) : IsDigit(cs[i])

\* the characters of the texts a limit parameter is drawn from
Chars(s) ==
    CASE s = "abc" -> <<"a", "b", "c">>
      [] s = "" -> <<>>
      [] s = "0" -> <<"0">>
      [] s = "1" -> <<"1">>
      [] s = "2" -> <<"2">>
      [] s = "11" -> <<"1", "1">>
      [] s = "-1" -> <<"-", "1">>

\* int(text) succeeds: an optional sign followed by digits
IntParses(cs) ==
    \/ AllDigits(cs)
    \/ Len(cs) > 1 /\ cs[1] \in {"-", "+"} /\ AllDigits(Tail(cs))

IntOf(cs) ==
    IF cs[1] = "-" THEN 0 - NatOf(Tail(cs))
    ELSE IF cs[1] = "+" THEN NatOf(Tail(cs))
    ELSE NatOf(cs)

\* request.args.get(key, default=default)
ArgsGet(args, key, default) == IF args[key] = None THEN default ELSE args[key]

\* request.args.get(key, default=default, type=int): a value int() rejects
\* gives the default
ArgsGetInt(args, key, default) ==
    IF args[key] = None THEN default
    ELSE IF IntParses(Chars(args[key])) THEN IntOf(Chars(args[key]))
    ELSE default

TsCompact == <<"2", "0", "2", "4", "0", "1", "1", "5", "T", "0", "9", "3", "0", "0", "0">>
TsMalformed == <<"2", "0", "2", "4", "-", "0", "1", "-", "1", "5">>
TsReformatted ==
    <<"2", "0", "2", "4", "/", "0", "1", "/", "1", "5", " ", "0", "9", ":", "3", "0">>
TsBadMonth == <<"2", "0", "2", "4", "1", "3", "1", "5", "T", "0", "9", "3", "0", "0", "0">>

DaysIn(y, m) ==
    IF m \in {4, 6, 9, 11} THEN 30
    ELSE IF m = 2
         THEN (IF (y % 4 = 0 /\ y % 100 # 0) \/ y % 400 = 0 THEN 29 ELSE 28)
    ELSE 31

\* the fields datetime.strptime(s, "%Y%m%dT%H%M%S") reads from a text of the
\* fixed width YYYYMMDDThhmmss
TsFields(s) ==
    [Y |-> NatOf(SubSeq(s, 1, 4)), m |-> NatOf(SubSeq(s, 5, 6)),
     d |-> NatOf(SubSeq(s, 7, 8)), H |-> NatOf(SubSeq(s, 10, 11)),
     M |-> NatOf(SubSeq(s, 12, 13)), S |-> NatOf(SubSeq(s, 14, 15))]

\* strptime accepts s; otherwise it raises ValueError
StrptimeMatches(s) ==
    /\ Len(s) = 15
    /\ s[9] = "T"
    /\ \A i \in (1..8) \cup (10..15) : IsDigit(s[i])
    /\ LET f == TsFields(s)
       IN /\ f.Y >= 1
          /\ f.m \in 1..12
          /\ f.d >= 1 /\ f.d <= DaysIn(f.Y, f.m)
          /\ f.H <= 23 /\ f.M <= 59 /\ f.S <= 59

Pad2(n) == <<DigitChar(n \div 10), DigitChar(n % 10)>>

Pad4(n) ==
    <<DigitChar(n \div 1000), DigitChar((n \div 100) % 10),
      DigitChar((n \div 10) % 10), DigitChar(n % 10)>>

\* dt.strftime("%Y/%m/%d %H:%M")
Strftime(f) ==
    Pad4(f.Y) \o <<"/">> \o Pad2(f.m) \o <<"/">> \o Pad2(f.d) \o <<" ">>
    \o Pad2(f.H) \o <<":">> \o Pad2(f.M)

(***************************************************************************)
(* Documents and the store.                                                *)
(***************************************************************************)
Kinds ==
    {"company_overview", "cash_flow", "quarterly_earnings", "stock_weekly_data",
     "news_sentiment"}

\* the field each handler filters on
KeyField(kind) ==
    IF kind = "company_overview" THEN "Symbol"
    ELSE IF kind = "news_sentiment" THEN "ticket_number"
    ELSE "symbol"

\* a document: _id, the value of the kind's key field (sym), one numeric
\* field (val, stored under the name "PEGRatio") and time_published
Doc(id, sym, val, ts) == [_id |-> id, sym |-> sym, val |-> val, time_published |-> ts]

DocPool ==
    {[sym |-> "IBM", val |-> Float(125), time_published |-> TsCompact],
     [sym |-> "IBM", val |-> NaN, time_published |-> TsCompact],
     [sym |-> "IBM", val |-> Int32(7), time_published |-> TsMalformed],
     [sym |-> "MSFT", val |-> Int32(7), time_published |-> TsCompact]}

PlainDoc == [sym |-> "IBM", val |-> Int32(5), time_published |-> TsCompact]

\* the store assigns _id on insertion
WithIds(ds) ==
    [i \in 1..Len(ds) |->
        Doc(ObjectId(i), ds[i].sym, ds[i].val, ds[i].time_published)]

Heads == UNION {[1..n -> DocPool] : n \in 0..MaxDocs}

Collections ==
    {WithIds(h \o [i \in 1..p |-> PlainDoc]) : h \in Heads, p \in {0, PadDocs}}

SymbolInputs == {None, "", "IBM", "ZZZZ"}
SortFieldInputs == {None, "Symbol", "PEGRatio", "bogus"}
SortOrderInputs == {None, "asc", "desc", "ASC", ""}
LimitInputs == {None, "abc", "1", "2", "11"}

Requests ==
    [symbol : SymbolInputs, sort_field : SortFieldInputs,
     sort_order : SortOrderInputs, limit : LimitInputs]

NoRequest == [kind |-> None, args |-> [symbol |-> None, sort_field |-> None,
                                       sort_order |-> None, limit |-> None]]

\* a store call: key is the filter value (find, find_one) or the field (sort);
\* n is the direction (sort), the count asked for (limit) or the number of
\* documents the store returned (find_one, fetch)
Call(op, key, n) == [op |-> op, key |-> key, n |-> n]

\* find(filter): the documents whose key field equals the value, in insertion
\* order; None matches a null or missing field, which no document here has
Find(coll, value) == SelectSeq(coll, LAMBDA d : d.sym = value)

SymRank(s) == IF s = "IBM" THEN 1 ELSE IF s = "MSFT" THEN 2 ELSE 3

\* the place of a document in the store's comparison order for a sort on
\* field: a missing field sorts as null, below numbers; NaN is the least
\* number; strings come after numbers
SortKey(kind, d, field) ==
    IF field = KeyField(kind) THEN 3000 + SymRank(d.sym)
    ELSE IF field = "PEGRatio"
         THEN (IF d.val.nan THEN 1000 ELSE 2000 + d.val.v)
    ELSE 0

RECURSIVE InsertSorted(_, _, _, _, _)
InsertSorted(kind, field, dir, d, s) ==
    IF Len(s) = 0 THEN <<d>>
    ELSE IF dir * SortKey(kind, d, field) < dir * SortKey(kind, Head(s), field)
         THEN <<d>> \o s
    ELSE <<Head(s)>> \o InsertSorted(kind, field, dir, d, Tail(s))

RECURSIVE Sort(_, _, _, _)
\* cursor.sort(field, dir): documents with equal keys keep their order
Sort(kind, field, dir, s) ==
    IF Len(s) = 0 THEN <<>>
    ELSE InsertSorted(kind, field, dir, s[Len(s)],
                      Sort(kind, field, dir, SubSeq(s, 1, Len(s) - 1)))

\* the limit is not applied
LimitIgnored(n, s) == s

\* cursor.limit(n): 0 is no limit, a negative n asks for |n| documents
Limit(n, s) ==
    IF n = 0 THEN s
    ELSE LET m == IF n < 0 THEN 0 - n ELSE n
         IN IF Len(s) <= m THEN s ELSE SubSeq(s, 1, m)

\* the projection {"_id": 0}
Project(d) == [d EXCEPT !._id = Absent]

\* the emptiness test left out: every list counts as non-empty
TruthyAlways(documents) == TRUE

\* truth value of a Python list
Truthy(documents) == Len(documents) > 0

\* truth value of a Python str or None
TruthyStr(s) == s # None /\ s # ""

(***************************************************************************)
(* Responses.                                                              *)
(***************************************************************************)
\* a 200 response; envelope "response" is {"response": dumps(...)}, "array"
\* is jsonify(documents)
Ok(body, envelope) ==
    [status |-> 200, error |-> None, body |-> body, envelope |-> envelope]

Error(status, message) ==
    [status |-> status, error |-> message, body |-> <<>>, envelope |-> "error"]

\* an exception no handler catches: Flask answers 500
ServerError(exception) == Error(500, exception)

NoResponse == [status |-> 0, error |-> None, body |-> <<>>, envelope |-> None]

(***************************************************************************)
(* Record post-processing, per kind.                                       *)
(***************************************************************************)
\* str(document["_id"])
Str(x) == IF x.t = "oid" THEN StrOfId(x.v) ELSE x

Raised(exception, d) == [raised |-> exception, doc |-> d]

Done(d) == [raised |-> None, doc |-> d]

\* the loop over document.items(): a float value makes the test call isnan
NanToNone(d) ==
    IF d.val.t = "float"
    THEN (IF ~Bound("isnan") THEN Raised("NameError", d)
          ELSE IF d.val.nan THEN Done([d EXCEPT !.val = Null])
          ELSE Done(d))
    ELSE Done(d)

\* body of the loop of get_cash_flow
SanitizeCashFlow(d) == NanToNone([d EXCEPT !._id = Str(d._id)])

\* body of the loop of get_quarterly_earnings and of get_weekly_data
SanitizeIdOnly(d) == Done([d EXCEPT !._id = Str(d._id)])

\* datetime.strptime(...) followed by dt.strftime(...)
Reformat(d) ==
    IF ~Bound("datetime") THEN Raised("NameError", d)
    ELSE IF ~StrptimeMatches(d.time_published) THEN Raised("ValueError", d)
    ELSE Done([d EXCEPT !.time_published = Strftime(TsFields(d.time_published))])

\* body of the loop of get_news_sentiment
SanitizeNews(d) == Reformat([d EXCEPT !._id = Str(d._id)])

\* what a handler does to one retrieved document before it answers
Sanitize(kind, d) ==
    CASE kind = "company_overview" -> Done(d)
      [] kind = "cash_flow" -> SanitizeCashFlow(d)
      [] kind = "quarterly_earnings" -> SanitizeIdOnly(d)
      [] kind = "stock_weekly_data" -> SanitizeIdOnly(d)
      [] kind = "news_sentiment" -> SanitizeNews(d)

\* the for loop over documents: the first exception ends the request
SanitizeAll(kind, documents) ==
    LET out == [i \in 1..Len(documents) |-> Sanitize(kind, documents[i])]
        bad == {i \in 1..Len(documents) : out[i].raised # None}
    IN IF bad = {}
       THEN [raised |-> None, documents |-> [i \in 1..Len(documents) |-> out[i].doc]]
       ELSE [raised |-> out[CHOOSE i \in bad : \A j \in bad : i <= j].raised,
             documents |-> <<>>]

(***************************************************************************)
(* The handlers.                                                           *)
(***************************************************************************)
OverviewSortFields == {"Name", "Symbol", "PEGRatio", "MarketCapitalization", "Beta"}

SortOrders == {"asc", "desc"}

PymongoSortOrder(sort_order) == IF sort_order = "asc" THEN ASCENDING ELSE DESCENDING

\* list(coll.find({key: symbol}).sort(sort_field, order)): sort raises
\* TypeError unless sort_field is a string, before anything is fetched
SortedFind(kind, symbol, sort_field, order) ==
    IF sort_field = None
    THEN [raised |-> "TypeError", documents |-> <<>>,
          calls |-> <<Call("find", symbol, 0)>>]
    ELSE LET documents == Sort(kind, sort_field, order, Find(db[kind], symbol))
         IN [raised |-> None,
             documents |-> documents,
             calls |-> <<Call("find", symbol, 0), Call("sort", sort_field, order),
                         Call("fetch", None, Len(documents))>>]

\* if documents: <loop>; return jsonify(documents)  else: 404
DocumentsResponse(kind, q) ==
    IF q.raised # None THEN ServerError(q.raised)
    ELSE IF Truthy(q.documents)
         THEN LET s == SanitizeAll(kind, q.documents)
              IN IF s.raised # None THEN ServerError(s.raised)
                 ELSE Ok(s.documents, "array")
    ELSE Error(404, "Data not found")

\* the symbol branch of get_company_overview
OverviewBySymbol(symbol) ==
    LET found == Find(db["company_overview"], symbol)
    IN [resp |-> IF Len(found) > 0 THEN Ok(<<Project(found[1])>>, "response")
                 ELSE Error(404, "Company not found"),
        calls |-> <<Call("find_one", symbol, IF Len(found) > 0 THEN 1 ELSE 0)>>,
        checked |-> {}]

\* the sort_field branch of get_company_overview
OverviewSorted(sort_field, sort_order, limit) ==
    IF sort_field \notin OverviewSortFields
    THEN [resp |-> Error(400, "Invalid sort_field"), calls |-> <<>>, checked |-> {}]
    ELSE IF sort_order \notin SortOrders
    THEN [resp |-> Error(400, "Invalid sort_order"), calls |-> <<>>,
          checked |-> {sort_field}]
    ELSE LET coll == db["company_overview"]
             all == [i \in 1..Len(coll) |-> Project(coll[i])]
             companies ==
                 Limit(limit, Sort("company_overview", sort_field,
                                   PymongoSortOrder(sort_order), all))
         IN [resp |-> IF Truthy(companies) THEN Ok(companies, "response")
                      ELSE Error(404, "No companies found"),
             calls |-> <<Call("find", None, 0),
                         Call("sort", sort_field, PymongoSortOrder(sort_order)),
                         Call("limit", None, limit),
                         Call("fetch", None, Len(companies))>>,
             checked |-> {sort_field}]

Overview(args) ==
    LET symbol == ArgsGet(args, "symbol", None)
        sort_field == ArgsGet(args, "sort_field", None)
        sort_order == ArgsGet(args, "sort_order", "asc")
        limit == ArgsGetInt(args, "limit", DefaultLimit)
    IN IF TruthyStr(symbol) THEN OverviewBySymbol(symbol)
       ELSE IF TruthyStr(sort_field) THEN OverviewSorted(sort_field, sort_order, limit)
       ELSE [resp |-> Error(400, "Symbol or sort_field parameter is required"),
             calls |-> <<>>, checked |-> {}]

\* the body shared by the four handlers that filter on a symbol
BySymbol(kind, args) ==
    LET symbol == ArgsGet(args, "symbol", None)
        sort_field == ArgsGet(args, "sort_field", None)
        sort_order == ArgsGet(args, "sort_order", "asc")
        q == SortedFind(kind, symbol, sort_field, PymongoSortOrder(sort_order))
    IN [resp |-> DocumentsResponse(kind, q), calls |-> q.calls, checked |-> {}]

Answer(kind, args, r) ==
    /\ req' = [kind |-> kind, args |-> args]
    /\ resp' = r.resp
    /\ calls' = r.calls
    /\ checked' = r.checked
    /\ pc' = "done"
    /\ UNCHANGED <<db, sanVars, tcVars>>

get_company_overview ==
    /\ pc = "idle"
    /\ \E args \in Requests : Answer("company_overview", args, Overview(args))

get_cash_flow ==
    /\ pc = "idle"
    /\ \E args \in Requests : Answer("cash_flow", args, BySymbol("cash_flow", args))

get_quarterly_earnings ==
    /\ pc = "idle"
    /\ \E args \in Requests :
        Answer("quarterly_earnings", args, BySymbol("quarterly_earnings", args))

get_weekly_data ==
    /\ pc = "idle"
    /\ \E args \in Requests :
        Answer("stock_weekly_data", args, BySymbol("stock_weekly_data", args))

get_news_sentiment ==
    /\ pc = "idle"
    /\ \E args \in Requests :
        Answer("news_sentiment", args, BySymbol("news_sentiment", args))

\* the response is sent; the blueprint waits for the next request
NextRequest ==
    /\ pc = "done"
    /\ pc' = "idle"
    /\ req' = NoRequest
    /\ resp' = NoResponse
    /\ calls' = <<>>
    /\ checked' = {}
    /\ UNCHANGED <<db, sanVars, tcVars>>

SanIdle ==
    /\ sanKind = None
    /\ sanIn = None
    /\ sanOut = None
    /\ sanPc = "off"

TcIdle ==
    /\ tcPost = <<>>
    /\ tcReplies = <<>>
    /\ tcEdges = 0
    /\ tcQueue = <<>>
    /\ tcResult = <<>>
    /\ tcPc = "off"

RestIdle ==
    /\ pc = "idle"
    /\ req = NoRequest
    /\ resp = NoResponse
    /\ calls = <<>>
    /\ checked = {}

Init ==
    /\ db \in {[k \in Kinds |-> c] : c \in Collections}
    /\ RestIdle
    /\ SanIdle
    /\ TcIdle

Next ==
    \/ get_company_overview
    \/ get_cash_flow
    \/ get_quarterly_earnings
    \/ get_weekly_data
    \/ get_news_sentiment
    \/ NextRequest

Spec == Init /\ [][Next]_vars

(***************************************************************************)
(* The post-processing applied to single records, once and then again to   *)
(* its own output.                                                         *)
(***************************************************************************)
SanIds == {ObjectId(1), StrOfId(1)}
SanVals == {Float(125), NaN, Int32(7), Null}
SanStamps == {TsCompact, TsMalformed, TsReformatted, TsBadMonth}

SanInputs == {Doc(id, "IBM", val, ts) : id \in SanIds, val \in SanVals, ts \in SanStamps}

\* the loop body of the kind's handler runs on a retrieved record
SanitizeOnce ==
    /\ sanPc = "new"
    /\ sanOut' = Sanitize(sanKind, sanIn)
    /\ sanPc' = "once"
    /\ UNCHANGED <<sanKind, sanIn, restVars, tcVars>>

\* the same loop body runs on the record it produced
SanitizeAgain ==
    /\ sanPc = "once"
    /\ sanOut.raised = None
    /\ sanIn' = sanOut.doc
    /\ sanOut' = Sanitize(sanKind, sanOut.doc)
    /\ sanPc' = "twice"
    /\ UNCHANGED <<sanKind, restVars, tcVars>>

InitSan ==
    /\ db = [k \in Kinds |-> <<>>]
    /\ RestIdle
    /\ TcIdle
    /\ sanKind \in Kinds
    /\ sanIn \in SanInputs
    /\ sanOut = Done(sanIn)
    /\ sanPc = "new"

NextSan == SanitizeOnce \/ SanitizeAgain

SpecSan == InitSan /\ [][NextSan]_vars

(***************************************************************************)
(* The comment thread of a post: Post.comment_ids, Comment.comment_ids and *)
(* the breadth-first traversal that collects Post.all_comment_ids.         *)
(***************************************************************************)
CommentIds == {"c1", "c2", "c3"}

\* a reply is attached: its id is appended to the comment_ids of the post
\* (parent = "post") or of a comment
AttachReply ==
    /\ tcPc = "build"
    /\ tcEdges < MaxEdges
    /\ \E child \in CommentIds :
        \/ /\ tcPost' = Append(tcPost, child)
           /\ UNCHANGED tcReplies
        \/ /\ \E parent \in CommentIds :
                tcReplies' = [tcReplies EXCEPT ![parent] = Append(@, child)]
           /\ UNCHANGED tcPost
    /\ tcEdges' = tcEdges + 1
    /\ UNCHANGED <<tcQueue, tcResult, tcPc, restVars, sanVars>>

\* replies_of(comment_id): the comment's own comment_ids, verbatim
replies_of(comment_id) == tcReplies[comment_id]

\* the ids found under a visited comment are put first: a depth-first order
EnqueueFront(queue, replies) == replies \o queue

\* the ids found under a visited comment wait behind those already waiting
Enqueue(queue, replies) == queue \o replies

\* thread_closure starts from the post's comment_ids
thread_closure_start ==
    /\ tcPc = "build"
    /\ tcQueue' = tcPost
    /\ tcResult' = <<>>
    /\ tcPc' = "run"
    /\ UNCHANGED <<tcPost, tcReplies, tcEdges, restVars, sanVars>>

Visited(result) == {result[i] : i \in 1..Len(result)}

\* the next waiting id was not visited before: collect it, queue its replies
thread_closure_visit ==
    /\ tcPc = "run"
    /\ Len(tcQueue) > 0
    /\ Head(tcQueue) \notin Visited(tcResult)
    /\ tcResult' = Append(tcResult, Head(tcQueue))
    /\ tcQueue' = Enqueue(Tail(tcQueue), replies_of(Head(tcQueue)))
    /\ UNCHANGED <<tcPost, tcReplies, tcEdges, tcPc, restVars, sanVars>>

\* the next waiting id was visited before: CycleDetected
thread_closure_cycle ==
    /\ tcPc = "run"
    /\ Len(tcQueue) > 0
    /\ Head(tcQueue) \in Visited(tcResult)
    /\ tcPc' = "failed"
    /\ UNCHANGED <<tcPost, tcReplies, tcEdges, tcQueue, tcResult, restVars, sanVars>>

\* nothing waits: the visited ids are the closure
thread_closure_return ==
    /\ tcPc = "run"
    /\ Len(tcQueue) = 0
    /\ tcPc' = "done"
    /\ UNCHANGED <<tcPost, tcReplies, tcEdges, tcQueue, tcResult, restVars, sanVars>>

thread_closure_step ==
    thread_closure_visit \/ thread_closure_cycle \/ thread_closure_return

InitTC ==
    /\ db = [k \in Kinds |-> <<>>]
    /\ RestIdle
    /\ SanIdle
    /\ tcPost = <<>>
    /\ tcReplies = [c \in CommentIds |-> <<>>]
    /\ tcEdges = 0
    /\ tcQueue = <<>>
    /\ tcResult = <<>>
    /\ tcPc = "build"

NextTC ==
    \/ AttachReply
    \/ thread_closure_start
    \/ thread_closure_visit
    \/ thread_closure_cycle
    \/ thread_closure_return

\* a traversal that was started keeps running; nothing obliges a caller to
\* attach replies or to start one
SpecTC == InitTC /\ [][NextTC]_vars /\ WF_vars(thread_closure_step)

(***************************************************************************)
(* Properties of the handlers (checked under Spec).                        *)
(***************************************************************************)
Supplied(key) == req.args[key] # None

Answered(kinds) == pc = "done" /\ req.kind \in kinds

SortCalls == {i \in 1..Len(calls) : calls[i].op = "sort"}

Lookups == {i \in 1..Len(calls) : calls[i].op \in {"find_one", "fetch"}}

NotFoundMessages == {"Company not found", "No companies found", "Data not found"}

\* C1: a sort_field outside the allow-list is answered 400 "Invalid
\* sort_field" with no store call made, and every field handed to the
\* store's sort was accepted by an allow-list check.
C1_InvalidSortFieldRejected ==
    /\ (Answered({"company_overview"}) /\ Supplied("sort_field")
            /\ req.args.sort_field \notin OverviewSortFields)
        => (resp.status = 400 /\ resp.error = "Invalid sort_field" /\ calls = <<>>)
    /\ Answered(Kinds) => \A i \in SortCalls : calls[i].key \in checked

\* C2: a sort_order other than "asc" and "desc" is answered 400 and never
\* reaches the store as a direction; an omitted sort_order sorts ascending.
C2_InvalidSortOrderRejected ==
    Answered(Kinds) =>
        /\ (Supplied("sort_order") /\ req.args.sort_order \notin SortOrders)
            => (resp.status = 400 /\ SortCalls = {})
        /\ ~Supplied("sort_order") => \A i \in SortCalls : calls[i].n = ASCENDING

\* C3: a company-overview request whose limit is supplied and is no integer
\* is answered 400; the value 10 is not put in its place.
C3_NonNumericLimitRejected ==
    (Answered({"company_overview"}) /\ Supplied("limit")
        /\ ~IntParses(Chars(req.args.limit)))
    => (resp.status = 400 /\ \A i \in 1..Len(calls) : calls[i].op # "limit")

\* C4: a company-overview request with neither symbol nor sort_field, and a
\* request of any other kind without symbol, is answered 400 with no store
\* call made.
C4_MissingParameterRejected ==
    /\ (Answered({"company_overview"}) /\ ~Supplied("symbol") /\ ~Supplied("sort_field"))
        => (resp.status = 400 /\ calls = <<>>)
    /\ (Answered(Kinds \ {"company_overview"}) /\ ~Supplied("symbol"))
        => (resp.status = 400 /\ calls = <<>>)

\* C5: whenever the store's lookup (find_one, or the fetch of a find)
\* returns no record the answer is 404 not-found, and no 200 answer carries
\* an empty body.
C5_NotFoundWhenEmpty ==
    Answered(Kinds) =>
        /\ (\E i \in Lookups : calls[i].n = 0)
            => (resp.status = 404 /\ resp.error \in NotFoundMessages)
        /\ resp.status = 200 => Len(resp.body) > 0

\* a lookup for a symbol no company has found nothing and was answered 404
C5_Witness ==
    /\ Answered({"company_overview"})
    /\ req.args.symbol = "ZZZZ"
    /\ calls = <<Call("find_one", "ZZZZ", 0)>>
    /\ resp = Error(404, "Company not found")

\* a sorted query of a kind other than the overview found nothing, answered 404
C5_WitnessFind ==
    /\ Answered({"stock_weekly_data"})
    /\ \E i \in Lookups : calls[i].op = "fetch" /\ calls[i].n = 0
    /\ resp = Error(404, "Data not found")

\* the limit a request asks for: the one supplied, 10 when none is
EffectiveLimit == ArgsGetInt(req.args, "limit", DefaultLimit)

\* the request's limit is one the claim speaks of: omitted, or an integer
LimitStated == Supplied("limit") => IntParses(Chars(req.args.limit))

\* C6 as stated: a 200 answer to a request whose limit (supplied as an
\* integer, or 10 when omitted) is n >= 1 carries at most n records, for
\* every kind.
C6_AtMostLimitRecords ==
    (Answered(Kinds) /\ resp.status = 200 /\ LimitStated /\ EffectiveLimit >= 1)
    => Len(resp.body) <= EffectiveLimit

\* C6 amended: a 200 answer to a company-overview request whose limit
\* (supplied as an integer, or 10 when omitted) is n >= 1 carries at most n
\* records.
C6_OverviewAtMostLimit ==
    (Answered({"company_overview"}) /\ resp.status = 200 /\ LimitStated
        /\ EffectiveLimit >= 1)
    => Len(resp.body) <= EffectiveLimit

\* more than 10 companies are stored, no limit was given: 10 are returned
C6_Witness ==
    /\ Answered({"company_overview"})
    /\ ~Supplied("symbol") /\ ~Supplied("limit")
    /\ Len(db["company_overview"]) > DefaultLimit
    /\ resp.status = 200
    /\ Len(resp.body) = DefaultLimit

\* the news-sentiment documents the store holds for the request's symbol
NewsFound == Find(db["news_sentiment"], req.args.symbol)

\* C7: a news-sentiment result set with a record whose time_published is not
\* YYYYMMDDThhmmss is still answered 200 with every record in its place, the
\* well-formed ones reformatted to YYYY/MM/DD hh:mm.
C7_MalformedTimestampIsolated ==
    (Answered({"news_sentiment"}) /\ (\E i \in Lookups : calls[i].n > 0)
        /\ \E i \in 1..Len(NewsFound) : ~StrptimeMatches(NewsFound[i].time_published))
    => /\ resp.status = 200
       /\ Len(resp.body) = Len(NewsFound)
       /\ \A i \in 1..Len(resp.body) : \A j \in 1..Len(NewsFound) :
            (resp.body[i]._id.v = NewsFound[j]._id.v
                /\ StrptimeMatches(NewsFound[j].time_published))
            => resp.body[i].time_published = Strftime(TsFields(NewsFound[j].time_published))

\* C8: no record of a 200 answer, of any kind, has a float field that is
\* not a number.
C8_NoNaNInResponses ==
    (Answered(Kinds) /\ resp.status = 200)
    => \A i \in 1..Len(resp.body) : ~resp.body[i].val.nan

(***************************************************************************)
(* Properties of the post-processing (checked under SpecSan).              *)
(***************************************************************************)
\* the shape of a record the post-processing of the kind has produced
IsSanitized(kind, d) ==
    /\ kind # "company_overview" => d._id.t = "str"
    /\ ~d.val.nan
    /\ kind = "news_sentiment" => d.time_published = TsReformatted

\* C9: for every kind, the post-processing applied to a record that is
\* already post-processed succeeds and gives the same record.
C9_SanitizeIdempotent ==
    /\ sanPc = "twice" => sanOut = Done(sanIn)
    /\ (sanPc = "once" /\ IsSanitized(sanKind, sanIn)) => sanOut = Done(sanIn)

(***************************************************************************)
(* Properties of the traversal (checked under SpecTC).                     *)
(***************************************************************************)
RECURSIVE Reach(_)
\* the ids reachable from the ids of S along comment_ids
Reach(S) ==
    LET T == S \cup UNION {Visited(tcReplies[c]) : c \in S}
    IN IF T = S THEN S ELSE Reach(T)

Reachable == Reach(Visited(tcPost))

Count(list, id) == Cardinality({i \in 1..Len(list) : list[i] = id})

RECURSIVE CountIn(_, _)
\* how often id is listed by the comments of S
CountIn(S, id) ==
    IF S = {} THEN 0
    ELSE LET c == CHOOSE x \in S : TRUE
         IN Count(tcReplies[c], id) + CountIn(S \ {c}, id)

\* some id is listed twice by the post and the comments reachable from it
ReachedTwice ==
    \E id \in CommentIds : Count(tcPost, id) + CountIn(Reachable, id) >= 2

\* no reachable comment is reachable from its own replies
Acyclic == \A c \in Reachable : c \notin Reach(Visited(tcReplies[c]))

RECURSIVE RepliesOfAll(_)
\* the comment_ids of the listed comments, one list after the other
RepliesOfAll(list) ==
    IF Len(list) = 0 THEN <<>>
    ELSE tcReplies[Head(list)] \o RepliesOfAll(Tail(list))

\* every reachable id once, each comment's replies after those of the
\* comments before it: breadth-first in insertion order
IsClosure(result) ==
    /\ Visited(result) = Reachable
    /\ Len(result) = Cardinality(Reachable)
    /\ result = tcPost \o RepliesOfAll(result)

Ended == tcPc \in {"done", "failed"}

\* no list names an id twice
NoRepeats ==
    /\ \A id \in CommentIds : Count(tcPost, id) <= 1
    /\ \A c, id \in CommentIds : Count(tcReplies[c], id) <= 1

\* C10 as stated: on an acyclic graph (whose lists name no id twice) the
\* traversal returns the closure, every reachable id once in breadth-first
\* insertion order, and it fails with CycleDetected whenever an id is
\* reached a second time.
C10_ClosureOnAcyclic ==
    /\ (Ended /\ Acyclic /\ NoRepeats) => (tcPc = "done" /\ IsClosure(tcResult))
    /\ (Ended /\ ReachedTwice) => tcPc = "failed"

\* C10 amended: the traversal always ends; when no id is listed twice by the
\* post and the comments reachable from it, it returns every reachable id
\* once in breadth-first insertion order; otherwise (a cycle, or two lists
\* naming one comment) it fails with CycleDetected.
C10_ClosureOrCycleDetected ==
    /\ [](tcPc = "done" => (~ReachedTwice /\ IsClosure(tcResult)))
    /\ [](tcPc = "failed" => ReachedTwice)
    /\ [](Ended => (ReachedTwice <=> tcPc = "failed"))
    /\ (tcPc = "run" ~> Ended)

\* the post lists c1 and c2, c1 lists c3: the closure is c1, c2, c3
C10_Witness ==
    /\ tcPc = "done"
    /\ tcPost = <<"c1", "c2">>
    /\ tcReplies = [c \in CommentIds |-> IF c = "c1" THEN <<"c3">> ELSE <<>>]
    /\ tcResult = <<"c1", "c2", "c3">>

\* c1 lists c2 and c2 lists c1: the traversal ended with CycleDetected
C10_WitnessCycle ==
    /\ tcPc = "failed"
    /\ tcPost = <<"c1">>
    /\ tcReplies["c1"] = <<"c2">>
    /\ tcReplies["c2"] = <<"c1">>

====
